---------------------------- MODULE Spec2Model ----------------------------
(***************************************************************************)
(* A model of src/src/main.rs: the LiDAR scan loop (grab a scan, cluster   *)
(* it with DBSCAN, group the points per label, compute one bounding box    *)
(* per group, post the result to the ground server).                       *)
(*                                                                         *)
(* f32 values.  A finite f32 is written as the integer n that stands for   *)
(* n / 256; the model only uses even n, so that halving is exact, as it is *)
(* in binary floating point.  f32 keeps 24 significant bits: the result of *)
(* an addition or subtraction is rounded to nearest, ties to even (Rnd24). *)
(* Infinities and NaN are kept because the folds of calculate_bounding_box *)
(* start from them.                                                        *)
(***************************************************************************)
EXTENDS Integers, Sequences, FiniteSets, TLC

VARIABLES
    pc,              \* position of main's loop body
    scan_points,     \* Vec<[f32; 2]> of the current iteration (line 41)
    points,          \* Array2<f32>, the records of the dataset (lines 57, 75)
    labels,          \* clusters.targets(): Array1<Option<usize>> (line 76)
    label_count,     \* HashMap<Option<usize>, usize> (line 72)
    cluster_points,  \* Vec<(usize, Array2<f32>)> (line 80)
    bounding_boxes,  \* Vec<(usize, BoundingBox)> (line 99)
    posted,          \* the LidarData of the request in flight
    last_send,       \* how the send of the iteration just ended came out:
                     \* "ok", "err", or "none" once the next one has begun
    last_grab,       \* outcome of the most recent grab_scan: "none", "ok", "err"
    stages,          \* stages the current iteration has gone through
    m_pc,            \* clustering study: position
    m_pts,           \* clustering study: the point sequence
    m_min,           \* clustering study: min_points
    m_tol,           \* clustering study: <<t1, t2>>, t1 < t2
    m_lab            \* clustering study: <<labels at t1, labels at t2>>

vars == <<pc, scan_points, points, labels, label_count, cluster_points,
          bounding_boxes, posted, last_send, last_grab, stages,
          m_pc, m_pts, m_min, m_tol, m_lab>>

loopVars == <<pc, scan_points, points, labels, label_count, cluster_points,
              bounding_boxes, posted, last_send, last_grab, stages>>

studyVars == <<m_pc, m_pts, m_min, m_tol, m_lab>>

-----------------------------------------------------------------------------
(* Bounds of the model *)

\* longest scan grab_scan returns
MaxPts == 6

\* longest point sequence of the clustering study
MaxStudyPts == 7

-----------------------------------------------------------------------------
(* Program constants *)

\* let min_points = 3;
min_points == 3

\* .tolerance(100.0), in units of 1/256
tolerance == 25600

\* Option::None, the Noise label
None == -1

\* f32 has 24 significant bits: integers below 2^24 are exact
F32Exact == 16777216

-----------------------------------------------------------------------------
(* f32 arithmetic *)

Fin(n) == [c |-> "fin", v |-> n]
INFINITY == [c |-> "inf", v |-> 1]
NEG_INFINITY == [c |-> "inf", v |-> -1]
NaN == [c |-> "nan", v |-> 0]

IsFin(a) == a.c = "fin"
IsNaN(a) == a.c = "nan"

Abs(n) == IF n < 0 THEN -n ELSE n

\* the spacing of f32 values at magnitude m
RECURSIVE Ulp(_)
Ulp(m) == IF m < F32Exact THEN 1 ELSE 2 * Ulp(m \div 2)

\* round to nearest f32, ties to even
Rnd24(n) ==
    LET m  == Abs(n)
        q  == Ulp(m)
        lo == (m \div q) * q
        r  == m - lo
        up == IF 2 * r > q THEN TRUE
              ELSE IF 2 * r < q THEN FALSE
              ELSE ((lo \div q) % 2) = 1
        res == IF up THEN lo + q ELSE lo
    IN  IF n < 0 THEN -res ELSE res

\* a <= b on f32 (false when either is NaN)
FLe(a, b) ==
    /\ ~IsNaN(a)
    /\ ~IsNaN(b)
    /\ \/ a = NEG_INFINITY
       \/ b = INFINITY
       \/ IsFin(a) /\ IsFin(b) /\ a.v <= b.v

\* f32::min and f32::max: a NaN operand is ignored
FMin(a, b) == IF IsNaN(a) THEN b ELSE IF IsNaN(b) THEN a
              ELSE IF FLe(a, b) THEN a ELSE b
FMax(a, b) == IF IsNaN(a) THEN b ELSE IF IsNaN(b) THEN a
              ELSE IF FLe(a, b) THEN b ELSE a

FNeg(a) == IF IsNaN(a) THEN NaN ELSE [c |-> a.c, v |-> -a.v]

FAdd(a, b) ==
    IF IsNaN(a) \/ IsNaN(b) THEN NaN
    ELSE IF IsFin(a) /\ IsFin(b) THEN Fin(Rnd24(a.v + b.v))
    ELSE IF IsFin(a) THEN b
    ELSE IF IsFin(b) THEN a
    ELSE IF a = b THEN a ELSE NaN

FSub(a, b) == FAdd(a, FNeg(b))

\* x / 2.0: exact on the even values of the model
FHalf(a) == IF IsFin(a) THEN Fin(a.v \div 2) ELSE a


-----------------------------------------------------------------------------
(* DBSCAN (linfa_clustering::Dbscan, called at lines 67-70) *)

\* Euclidean distance of p and q is at most tol
Within(p, q, tol) ==
    LET dx == Abs(p[1] - q[1])
        dy == Abs(p[2] - q[2])
    IN  /\ dx <= tol
        /\ dy <= tol
        /\ dx * dx + dy * dy <= tol * tol

\* indices of the points in the neighbourhood of point i, i included
Neighbors(pts, i, tol) == {j \in 1..Len(pts) : Within(pts[i], pts[j], tol)}

IsCore(pts, i, minPts, tol) == Cardinality(Neighbors(pts, i, tol)) >= minPts

\* a wrong expansion: the neighbours of the core points of S and no further
ReachableOneStep(pts, S, minPts, tol) ==
    S \cup UNION {Neighbors(pts, j, tol) :
                    j \in {k \in S : IsCore(pts, k, minPts, tol)}}

\* the points density-reachable from the points of S
RECURSIVE Reachable(_, _, _, _)
Reachable(pts, S, minPts, tol) ==
    LET S2 == S \cup UNION {Neighbors(pts, j, tol) :
                              j \in {k \in S : IsCore(pts, k, minPts, tol)}}
    IN  IF S2 = S THEN S ELSE Reachable(pts, S2, minPts, tol)

\* the scan over the points in input order: an unlabelled core point opens
\* cluster c and takes every reachable point that has no label yet
RECURSIVE Expand(_, _, _, _, _, _)
Expand(pts, i, lab, c, minPts, tol) ==
    IF i > Len(pts) THEN lab
    ELSE IF lab[i] # None \/ ~IsCore(pts, i, minPts, tol)
         THEN Expand(pts, i + 1, lab, c, minPts, tol)
         ELSE LET cl   == Reachable(pts, {i}, minPts, tol)
                  lab2 == [j \in 1..Len(pts) |->
                             IF j \in cl /\ lab[j] = None THEN c ELSE lab[j]]
              IN  Expand(pts, i + 1, lab2, c + 1, minPts, tol)

\* the label of every point, in input order
Dbscan(pts, minPts, tol) ==
    Expand(pts, 1, [j \in 1..Len(pts) |-> None], 0, minPts, tol)

-----------------------------------------------------------------------------
(* The pure steps of main's loop body *)

\* scan_points.iter().flat_map(|p| vec![p[0], p[1]]).collect()
RECURSIVE Flatten(_)
Flatten(sp) ==
    IF sp = <<>> THEN <<>>
    ELSE <<Head(sp)[1], Head(sp)[2]>> \o Flatten(Tail(sp))

\* a wrong reshape: the flat vector read column by column
FromShapeVecColumnMajor(n, flat) ==
    [i \in 1..n |-> <<flat[i], flat[n + i]>>]

\* Array2::from_shape_vec((n, 2), flat): row i is flat[2i], flat[2i+1]
FromShapeVec(n, flat) ==
    [i \in 1..n |-> <<flat[2 * i - 1], flat[2 * i]>>]

\* clusters.label_count().remove(0): how many points carry each label
LabelCount(lab) ==
    [l \in {lab[i] : i \in 1..Len(lab)} |->
        Cardinality({i \in 1..Len(lab) : lab[i] = l})]

\* a wrong slot count: one less than the number of keys
NumClustersLessOne(lc) == Cardinality(DOMAIN lc) - 1

\* let num_clusters = label_count.len();
NumClusters(lc) == Cardinality(DOMAIN lc)

\* for i in 0..num_clusters { cluster_points.push((i, Array2::zeros((0, 2)))) }
EmptyClusters(n) == [i \in 1..n |-> <<i - 1, <<>> >>]

\* cluster_points[cluster_id] is a valid index for every label
IndexInBounds(lab, n) ==
    \A i \in 1..Len(lab) : lab[i] # None => lab[i] < n

\* a wrong grouping: a Noise point is put into slot 0
RECURSIVE GroupPointsNoiseInZero(_, _, _, _)
GroupPointsNoiseInZero(pts, lab, cp, i) ==
    IF i > Len(pts) THEN cp
    ELSE LET k == IF lab[i] = None THEN 1 ELSE lab[i] + 1
         IN  GroupPointsNoiseInZero(pts, lab,
                 [cp EXCEPT ![k] = <<cp[k][1], Append(cp[k][2], pts[i])>>],
                 i + 1)

\* for (point, &label) in points.rows().zip(labels): a labelled point is
\* appended to the array of its cluster, a Noise point is left out
RECURSIVE GroupPoints(_, _, _, _)
GroupPoints(pts, lab, cp, i) ==
    IF i > Len(pts) THEN cp
    ELSE IF lab[i] = None THEN GroupPoints(pts, lab, cp, i + 1)
    ELSE LET k == lab[i] + 1
         IN  GroupPoints(pts, lab,
                 [cp EXCEPT ![k] = <<cp[k][1], Append(cp[k][2], pts[i])>>],
                 i + 1)

\* column.fold(init, |acc, &x| f(acc, x)), for f = min and f = max
RECURSIVE FoldMin(_, _, _)
FoldMin(arr, col, acc) ==
    IF arr = <<>> THEN acc
    ELSE FoldMin(Tail(arr), col, FMin(acc, Fin(Head(arr)[col])))

RECURSIVE FoldMax(_, _, _)
FoldMax(arr, col, acc) ==
    IF arr = <<>> THEN acc
    ELSE FoldMax(Tail(arr), col, FMax(acc, Fin(Head(arr)[col])))

\* a wrong box: the half extent is stored as the width and the height
calculate_bounding_box_half_extent(arr) ==
    LET x_min == FoldMin(arr, 1, INFINITY)
        x_max == FoldMax(arr, 1, NEG_INFINITY)
        y_min == FoldMin(arr, 2, INFINITY)
        y_max == FoldMax(arr, 2, NEG_INFINITY)
    IN  [center |-> <<FHalf(FAdd(x_min, x_max)), FHalf(FAdd(y_min, y_max))>>,
         width  |-> FHalf(FSub(x_max, x_min)),
         height |-> FHalf(FSub(y_max, y_min)),
         theta  |-> Fin(0)]

\* lines 134-156
calculate_bounding_box(arr) ==
    LET x_min == FoldMin(arr, 1, INFINITY)
        x_max == FoldMax(arr, 1, NEG_INFINITY)
        y_min == FoldMin(arr, 2, INFINITY)
        y_max == FoldMax(arr, 2, NEG_INFINITY)
    IN  [center |-> <<FHalf(FAdd(x_min, x_max)), FHalf(FAdd(y_min, y_max))>>,
         width  |-> FSub(x_max, x_min),
         height |-> FSub(y_max, y_min),
         theta  |-> Fin(0)]

\* for (label, points_array) in cluster_points.iter(): one box per slot
ExtractBoxes(cp) ==
    [k \in 1..Len(cp) |-> <<cp[k][1], calculate_bounding_box(cp[k][2])>>]

\* LidarData { scan_points, point_labels, bounding_boxes } (the timestamp
\* is the wall clock and is left out)
LidarData(sp, pl, bb) ==
    [scan_points |-> sp, point_labels |-> pl, bounding_boxes |-> bb]

NoData == LidarData(<<>>, <<>>, <<>>)

-----------------------------------------------------------------------------
(* main's loop (lines 39-112) *)

\* 2^24 in units of 1/256, that is 65536.0
Far == F32Exact

\* the [x, y] pairs grab_scan's samples are converted to (lines 46-49):
\* one point at the origin and three in a row around x = 65536, the
\* neighbours less than 100.0 apart and the outer two more than 100.0 apart
ScanPointSet ==
    { <<0, 0>>,
      <<Far + 4, 0>>,
      <<Far + 25006, 512>>,
      <<Far + 50008, 0>> }

FullCycle == <<"acquire", "cluster", "group", "extract", "dispatch">>

\* the locals of the loop body do not outlive the iteration
KeepLocals ==
    UNCHANGED <<scan_points, points, labels, label_count, cluster_points,
                bounding_boxes>>

DropLocals ==
    /\ scan_points' = <<>>
    /\ points' = <<>>
    /\ labels' = <<>>
    /\ label_count' = <<>>
    /\ cluster_points' = <<>>
    /\ bounding_boxes' = <<>>

\* an empty scan ends the iteration
AfterGrabSkipEmpty(scan) == IF scan = <<>> THEN "acquire" ELSE "cluster"

\* if let Ok(scan) = lidar.grab_scan() { ... }: on to line 57, whatever
\* the number of samples
AfterGrab(scan) == "cluster"

\* the failure falls through to the clustering
OnGrabErrFallThrough == "cluster"

\* else { println!("Failed to grab scan"); continue; }
OnGrabErr == "acquire"

\* the error is returned from main, as with `?`
OnSendErrReturn == "exit"

\* if let Err(e) = send_data_to_ground_server(..).await { eprintln!(..) }
OnSendErr == "acquire"

LoopInit ==
    /\ pc = "acquire"
    /\ scan_points = <<>>
    /\ points = <<>>
    /\ labels = <<>>
    /\ label_count = <<>>
    /\ cluster_points = <<>>
    /\ bounding_boxes = <<>>
    /\ posted = NoData
    /\ last_send = "none"
    /\ last_grab = "none"
    /\ stages = <<>>

StudyIdle ==
    /\ m_pc = "idle"
    /\ m_pts = <<>>
    /\ m_min = min_points
    /\ m_tol = <<tolerance, tolerance>>
    /\ m_lab = << <<>>, <<>> >>

Init == LoopInit /\ StudyIdle

\* lines 41-50: grab_scan returns a scan, every sample is pushed in order
GrabScanOk ==
    /\ pc = "acquire"
    /\ \E n \in 0..MaxPts :
         \E scan \in [1..n -> ScanPointSet] :
            /\ scan_points' = scan
            /\ pc' = AfterGrab(scan)
    /\ last_grab' = "ok"
    /\ last_send' = "none"
    /\ stages' = <<"acquire">>
    /\ UNCHANGED <<points, labels, label_count, cluster_points,
                   bounding_boxes, posted>>
    /\ UNCHANGED studyVars

\* lines 43, 51-54: grab_scan fails
GrabScanErr ==
    /\ pc = "acquire"
    /\ scan_points' = <<>>
    /\ pc' = OnGrabErr
    /\ last_grab' = "err"
    /\ last_send' = "none"
    /\ stages' = <<"acquire">>
    /\ UNCHANGED <<points, labels, label_count, cluster_points,
                   bounding_boxes, posted>>
    /\ UNCHANGED studyVars

\* lines 56-76: the scan as an array, DBSCAN, the label counts
Cluster ==
    /\ pc = "cluster"
    /\ points' = FromShapeVec(Len(scan_points), Flatten(scan_points))
    /\ labels' = Dbscan(points', min_points, tolerance)
    /\ label_count' = LabelCount(labels')
    /\ stages' = Append(stages, "cluster")
    /\ pc' = "group"
    /\ UNCHANGED <<scan_points, cluster_points, bounding_boxes, posted,
                   last_send, last_grab>>
    /\ UNCHANGED studyVars

\* lines 78-96: one slot per key of label_count, then the points by label;
\* an index past the slots panics
Group ==
    /\ pc = "group"
    /\ LET n == NumClusters(label_count)
       IN  IF IndexInBounds(labels, n)
           THEN /\ cluster_points' =
                      GroupPoints(points, labels, EmptyClusters(n), 1)
                /\ pc' = "extract"
                /\ stages' = Append(stages, "group")
           ELSE /\ pc' = "panicked"
                /\ UNCHANGED <<cluster_points, stages>>
    /\ UNCHANGED <<scan_points, points, labels, label_count, bounding_boxes,
                   posted, last_send, last_grab>>
    /\ UNCHANGED studyVars

\* lines 98-104: a bounding box for every slot of cluster_points
Extract ==
    /\ pc = "extract"
    /\ bounding_boxes' = ExtractBoxes(cluster_points)
    /\ stages' = Append(stages, "extract")
    /\ pc' = "dispatch"
    /\ UNCHANGED <<scan_points, points, labels, label_count, cluster_points,
                   posted, last_send, last_grab>>
    /\ UNCHANGED studyVars

\* lines 106-109, 172-186: the labels are copied, the LidarData is built
\* from the three vectors and the POST is issued
Post ==
    /\ pc = "dispatch"
    /\ posted' = LidarData(scan_points, labels, bounding_boxes)
    /\ stages' = Append(stages, "dispatch")
    /\ pc' = "await"
    /\ UNCHANGED <<scan_points, points, labels, label_count, cluster_points,
                   bounding_boxes, last_send, last_grab>>
    /\ UNCHANGED studyVars

\* lines 187-189, 109: the request is delivered; the iteration ends
SendOk ==
    /\ pc = "await"
    /\ last_send' = "ok"
    /\ pc' = "acquire"
    /\ posted' = NoData
    /\ DropLocals
    /\ UNCHANGED <<last_grab, stages>>
    /\ UNCHANGED studyVars

\* lines 187, 109-111: the request fails; the error is printed and the
\* iteration ends
SendErr ==
    /\ pc = "await"
    /\ last_send' = "err"
    /\ pc' = OnSendErr
    /\ posted' = NoData
    /\ DropLocals
    /\ UNCHANGED <<last_grab, stages>>
    /\ UNCHANGED studyVars

Next ==
    \/ GrabScanOk
    \/ GrabScanErr
    \/ Cluster
    \/ Group
    \/ Extract
    \/ Post
    \/ SendOk
    \/ SendErr

Spec == Init /\ [][Next]_vars

-----------------------------------------------------------------------------
(* Properties of the loop *)

\* the indices of the points that carry label l
Members(lab, l) == {i \in 1..Len(lab) : lab[i] = l}

\* the points of sp whose label is l, in the order of sp
RECURSIVE PointsWithLabel(_, _, _, _)
PointsWithLabel(sp, lab, l, i) ==
    IF i > Len(sp) THEN <<>>
    ELSE IF lab[i] = l
         THEN <<sp[i]>> \o PointsWithLabel(sp, lab, l, i + 1)
         ELSE PointsWithLabel(sp, lab, l, i + 1)

RECURSIVE SumSizes(_, _)
SumSizes(cp, k) ==
    IF k > Len(cp) THEN 0 ELSE Len(cp[k][2]) + SumSizes(cp, k + 1)

Grouped == pc \in {"extract", "dispatch", "await"}

Boxed == pc \in {"dispatch", "await"}

\* C1: every box that is computed and handed on belongs to a cluster slot
\* that holds at least one point (no box of an empty cluster, and none for
\* the Noise bucket).
C1_NoEmptyClusterEmitted ==
    Boxed =>
        \A k \in 1..Len(bounding_boxes) :
            /\ cluster_points[k][2] # <<>>
            /\ Members(labels, bounding_boxes[k][1]) # {}

\* C2: after grouping, slot k holds exactly the scan points labelled k-1,
\* each once, so that the slot sizes and the number of Noise points add up
\* to the number of scan points.
C2_Partition ==
    Grouped =>
        /\ \A k \in 1..Len(cluster_points) :
              cluster_points[k][2] =
                  PointsWithLabel(scan_points, labels, k - 1, 1)
        /\ \A i \in 1..Len(labels) :
              labels[i] # None => labels[i] + 1 \in 1..Len(cluster_points)
        /\ SumSizes(cluster_points, 1) + Cardinality(Members(labels, None))
              = Len(scan_points)

\* a Noise point in the middle of the points of a cluster
C2_Witness ==
    /\ pc = "extract"
    /\ Len(labels) >= 4
    /\ labels[1] = 0
    /\ labels[2] = None
    /\ labels[Len(labels)] = 0

\* C3: the step that ends a send, failed or not, leads back to the
\* acquisition, with the locals of the iteration gone and nothing in
\* flight: the state after a failed send is the state after a delivered
\* one but for the recorded outcome, which the next grab_scan overwrites.
C3_DispatchResilience ==
    [][pc = "await" =>
          /\ pc' = "acquire"
          /\ last_send' \in {"ok", "err"}
          /\ scan_points' = <<>> /\ points' = <<>> /\ labels' = <<>>
          /\ label_count' = <<>> /\ cluster_points' = <<>>
          /\ bounding_boxes' = <<>>
          /\ posted' = NoData
          /\ UNCHANGED <<last_grab, stages>>]_vars

\* the loop is back at the acquisition after a failed send
C3_Witness ==
    /\ last_send = "err"
    /\ pc = "acquire"
    /\ stages = FullCycle

\* C4: after a failed grab_scan the loop is back at the acquisition, the
\* iteration has gone through no other stage, nothing was clustered,
\* boxed or posted.
C4_AcquisitionFailureSkips ==
    last_grab = "err" =>
        /\ pc = "acquire"
        /\ stages = <<"acquire">>
        /\ scan_points = <<>> /\ points = <<>> /\ labels = <<>>
        /\ label_count = <<>> /\ cluster_points = <<>>
        /\ bounding_boxes = <<>>
        /\ posted = NoData

\* a grab has failed and the loop is at the next acquisition
C4_Witness ==
    /\ last_grab = "err"
    /\ pc = "acquire"
    /\ stages = <<"acquire">>

\* C5, as stated: no clustering is run on an empty scan and no result of
\* it is handed to the sink.
C5_EmptyScanSkipped ==
    (scan_points = <<>> /\ last_grab = "ok") =>
        pc \notin {"group", "extract", "dispatch", "await"}

\* C5, amended: an empty scan is not skipped.  Every scan grab_scan returns,
\* the empty one included, goes through every stage before the next
\* acquisition; on the empty scan the clustering returns no label, no slot
\* is made, no box is computed, and the result posted has three empty lists.
C5_EmptyScanProcessed ==
    /\ (last_grab = "ok" /\ pc = "acquire") => stages = FullCycle
    /\ (last_grab = "ok" /\ scan_points = <<>> /\ pc = "await") =>
          /\ stages = FullCycle
          /\ labels = <<>>
          /\ cluster_points = <<>>
          /\ posted = LidarData(<<>>, <<>>, <<>>)

\* the result of an empty scan is in flight
C5_Witness ==
    /\ pc = "await"
    /\ last_grab = "ok"
    /\ scan_points = <<>>
    /\ stages = FullCycle


\* p lies in the box, bounds included: center - extent/2 <= p <= center +
\* extent/2 on both axes, in exact arithmetic (both sides doubled)
Inside(p, box) ==
    /\ IsFin(box.center[1]) /\ IsFin(box.center[2])
    /\ IsFin(box.width) /\ IsFin(box.height)
    /\ 2 * box.center[1].v - box.width.v <= 2 * p[1]
    /\ 2 * p[1] <= 2 * box.center[1].v + box.width.v
    /\ 2 * box.center[2].v - box.height.v <= 2 * p[2]
    /\ 2 * p[2] <= 2 * box.center[2].v + box.height.v

\* the sum and the difference of the extremes of column col are f32 values:
\* neither is rounded
Unrounded(arr, col) ==
    LET lo == FoldMin(arr, col, INFINITY).v
        hi == FoldMax(arr, col, NEG_INFINITY).v
    IN  Rnd24(lo + hi) = lo + hi /\ Rnd24(hi - lo) = hi - lo

\* C6, as stated: every point of a cluster lies in the cluster's box.
C6_Containment ==
    Boxed =>
        \A k \in 1..Len(bounding_boxes) :
            \A i \in 1..Len(cluster_points[k][2]) :
                Inside(cluster_points[k][2][i], bounding_boxes[k][2])

\* C6, amended: every point of a cluster lies in the cluster's box when
\* x_min + x_max, x_max - x_min, y_min + y_max and y_max - y_min are
\* computed without rounding (the halving is exact on the values of the
\* model).
C6_ContainmentUnrounded ==
    Boxed =>
        \A k \in 1..Len(bounding_boxes) :
            (/\ cluster_points[k][2] # <<>>
             /\ Unrounded(cluster_points[k][2], 1)
             /\ Unrounded(cluster_points[k][2], 2)) =>
                \A i \in 1..Len(cluster_points[k][2]) :
                    Inside(cluster_points[k][2][i], bounding_boxes[k][2])

\* a box of positive width and height, computed without rounding
C6_Witness ==
    /\ Boxed
    /\ \E k \in 1..Len(bounding_boxes) :
          /\ cluster_points[k][2] # <<>>
          /\ Unrounded(cluster_points[k][2], 1)
          /\ Unrounded(cluster_points[k][2], 2)
          /\ bounding_boxes[k][2].width.v > 0
          /\ bounding_boxes[k][2].height.v > 0

\* C8: the result in flight has one label per scan point, and label i is
\* the label DBSCAN gives to scan point i of the scan as it was acquired.
C8_IndexAligned ==
    pc = "await" =>
        /\ posted.scan_points = scan_points
        /\ Len(posted.point_labels) = Len(posted.scan_points)
        /\ \A i \in 1..Len(posted.scan_points) :
              /\ points[i] = posted.scan_points[i]
              /\ posted.point_labels[i] =
                    Dbscan(posted.scan_points, min_points, tolerance)[i]

\* a result in flight with a Noise point after the points of a cluster
C8_Witness ==
    /\ pc = "await"
    /\ Len(posted.point_labels) >= 4
    /\ posted.point_labels[1] = 0
    /\ posted.point_labels[Len(posted.point_labels)] = None
    /\ posted.scan_points[1] # posted.scan_points[2]

Prefix(n) == SubSeq(FullCycle, 1, n)

\* C9: the stages of an iteration come in the order acquire, cluster,
\* group, extract, dispatch; the loop is at the acquisition only before the
\* first iteration, after a skipped one or after a completed send; and what
\* an iteration has not computed yet is empty, so nothing of an earlier
\* iteration is left.
C9_Sequential ==
    /\ pc \in {"acquire", "cluster", "group", "extract", "dispatch", "await"}
    /\ pc = "acquire" =>
          /\ \/ stages = <<>> /\ last_grab = "none"
             \/ stages = Prefix(1) /\ last_grab = "err"
             \/ stages = FullCycle /\ last_send \in {"ok", "err"}
          /\ scan_points = <<>> /\ points = <<>> /\ labels = <<>>
          /\ label_count = <<>> /\ cluster_points = <<>>
          /\ bounding_boxes = <<>> /\ posted = NoData
    /\ pc = "cluster" =>
          /\ stages = Prefix(1)
          /\ points = <<>> /\ labels = <<>> /\ label_count = <<>>
          /\ cluster_points = <<>> /\ bounding_boxes = <<>>
          /\ posted = NoData
    /\ pc = "group" =>
          /\ stages = Prefix(2)
          /\ cluster_points = <<>> /\ bounding_boxes = <<>>
          /\ posted = NoData
    /\ pc = "extract" =>
          /\ stages = Prefix(3)
          /\ bounding_boxes = <<>> /\ posted = NoData
    /\ pc = "dispatch" => stages = Prefix(4) /\ posted = NoData
    /\ pc = "await" =>
          /\ stages = FullCycle
          /\ posted = LidarData(scan_points, labels, bounding_boxes)

\* an iteration with two clusters is at its dispatch
C9_Witness ==
    /\ pc = "dispatch"
    /\ Len(bounding_boxes) = 2
    /\ Members(labels, None) = {}

\* C10: every label is a valid index of cluster_points, so that the
\* grouping never panics.
C10_IndexInBounds ==
    /\ pc # "panicked"
    /\ pc = "group" =>
          \A i \in 1..Len(labels) :
              labels[i] # None => labels[i] < Cardinality(DOMAIN label_count)
    /\ Grouped => Len(cluster_points) = Cardinality(DOMAIN label_count)

\* two clusters and no Noise point: the labels reach the last slot
C10_Witness ==
    /\ pc = "extract"
    /\ Members(labels, None) = {}
    /\ Members(labels, 1) # {}
    /\ Len(cluster_points) = 2

-----------------------------------------------------------------------------
(* DBSCAN at two tolerances: the same points, in the same order and with   *)
(* the same min_points, clustered at t1 and at t2 > t1.  The points lie on *)
(* the x axis and come in ascending or in descending order of x.           *)

StudyCoords == {0, 2, 4, 7, 8}

StudyTols == {1, 2, 3}

StudyMinPoints == {2, 3, 4}

RECURSIVE Reverse(_)
Reverse(q) == IF q = <<>> THEN <<>> ELSE Append(Reverse(Tail(q)), Head(q))

StudyInit ==
    /\ LoopInit
    /\ m_pc = "build"
    /\ m_pts = <<>>
    /\ m_min \in StudyMinPoints
    /\ m_tol \in {t \in StudyTols \X StudyTols : t[1] < t[2]}
    /\ m_lab = << <<>>, <<>> >>

\* one more point, not left of the last one
StudyPush ==
    /\ m_pc = "build"
    /\ Len(m_pts) < MaxStudyPts
    /\ \E x \in StudyCoords :
          /\ IF m_pts = <<>> THEN TRUE ELSE m_pts[Len(m_pts)][1] <= x
          /\ m_pts' = Append(m_pts, <<x, 0>>)
    /\ UNCHANGED <<m_pc, m_min, m_tol, m_lab>>
    /\ UNCHANGED loopVars

\* the points are taken in ascending order
StudyAscending ==
    /\ m_pc = "build"
    /\ m_pc' = "ready"
    /\ UNCHANGED <<m_pts, m_min, m_tol, m_lab>>
    /\ UNCHANGED loopVars

\* the points are taken in descending order
StudyDescending ==
    /\ m_pc = "build"
    /\ m_pts' = Reverse(m_pts)
    /\ m_pc' = "ready"
    /\ UNCHANGED <<m_min, m_tol, m_lab>>
    /\ UNCHANGED loopVars

\* Dbscan::params(m_min).tolerance(t1).transform(..)
TransformSmall ==
    /\ m_pc = "ready"
    /\ m_lab' = <<Dbscan(m_pts, m_min, m_tol[1]), <<>> >>
    /\ m_pc' = "small"
    /\ UNCHANGED <<m_pts, m_min, m_tol>>
    /\ UNCHANGED loopVars

\* Dbscan::params(m_min).tolerance(t2).transform(..)
TransformLarge ==
    /\ m_pc = "small"
    /\ m_lab' = <<m_lab[1], Dbscan(m_pts, m_min, m_tol[2])>>
    /\ m_pc' = "done"
    /\ UNCHANGED <<m_pts, m_min, m_tol>>
    /\ UNCHANGED loopVars

StudyNext ==
    \/ StudyPush
    \/ StudyAscending
    \/ StudyDescending
    \/ TransformSmall
    \/ TransformLarge

StudySpec == StudyInit /\ [][StudyNext]_vars

\* the cluster ids of a labelling
ClusterIds(lab) == {lab[i] : i \in 1..Len(lab)} \ {None}

\* the core points of cluster c of the labelling at t1
CoresAtSmall(c) ==
    {i \in Members(m_lab[1], c) : IsCore(m_pts, i, m_min, m_tol[1])}

\* (a) a point clustered at t1 is clustered at t2
StaysClustered ==
    \A i \in 1..Len(m_pts) : m_lab[1][i] # None => m_lab[2][i] # None

\* the core points of a cluster at t1 are in one cluster at t2
CoresStayTogether ==
    \A c \in ClusterIds(m_lab[1]) :
        Cardinality({m_lab[2][i] : i \in CoresAtSmall(c)}) = 1

\* (b) the cluster at t2 that holds the core points of cluster c of t1 has
\* at least as many points as c
NeverSmaller ==
    \A c \in ClusterIds(m_lab[1]) :
        \A i \in CoresAtSmall(c) :
            Cardinality(Members(m_lab[2], m_lab[2][i]))
                >= Cardinality(Members(m_lab[1], c))

\* the cluster at t2 holds at least the core points of c
NeverSmallerThanCores ==
    \A c \in ClusterIds(m_lab[1]) :
        \A i \in CoresAtSmall(c) :
            Cardinality(Members(m_lab[2], m_lab[2][i]))
                >= Cardinality(CoresAtSmall(c))

\* C7, as stated: for every min_points, (a) and (b).
C7_Monotone ==
    m_pc = "done" => StaysClustered /\ CoresStayTogether /\ NeverSmaller

\* C7, amended: (a) for every min_points; the core points of a cluster at
\* t1 are in one cluster at t2, which has at least as many points as the
\* cluster had core points; and it has at least as many points as the
\* cluster when min_points <= 3.
C7_MonotoneUpToBorders ==
    m_pc = "done" =>
        /\ StaysClustered
        /\ CoresStayTogether
        /\ NeverSmallerThanCores
        /\ m_min <= min_points => NeverSmaller

\* min_points = 3: a cluster with a border point at t1, and a Noise point
\* of t1 that is clustered at t2
C7_Witness ==
    /\ m_pc = "done"
    /\ m_min = min_points
    /\ \E i \in 1..Len(m_pts) :
          /\ m_lab[1][i] # None
          /\ ~IsCore(m_pts, i, m_min, m_tol[1])
    /\ \E j \in 1..Len(m_pts) : m_lab[1][j] = None /\ m_lab[2][j] # None

=============================================================================
